---- MODULE Spec2Model ----
(***************************************************************************)
(* Model of src/template.go: the config.xml template object of the         *)
(* Jenkins provider.  NewConfigXMLTemplate resolves a reference string     *)
(* into a ConfigXMLTemplate (source, data, hash); GetTemplateID,           *)
(* RecordedHash, ComputedHash and BindTo are its methods.                  *)
(*                                                                         *)
(* Go strings are TLA+ strings (Len, \o and SubSeq work on them bytewise). *)
(* A *ConfigXMLTemplate is a record whose field nil tells the nil pointer  *)
(* from a pointer to an object.                                            *)
(***************************************************************************)
EXTENDS Integers, Sequences, FiniteSets, TLC

\* the {32} of the regular expression, and the 32/33 of the two slices
HashLen == 32

\* ------------------------------------------------------------------ strings

Char(s, i) == SubSeq(s, i, i)

\* strings.HasPrefix
HasPrefix(s, prefix) ==
  /\ Len(s) >= Len(prefix)
  /\ SubSeq(s, 1, Len(prefix)) = prefix

\* strings.Replace(s, old, new, 1): the first occurrence of old only
Replace(s, old, new) ==
  LET hits == {i \in 1..(Len(s) - Len(old) + 1) : SubSeq(s, i, i + Len(old) - 1) = old}
  IN  IF hits = {} THEN s
      ELSE LET i == CHOOSE h \in hits : \A g \in hits : h <= g
           IN  SubSeq(s, 1, i - 1) \o new \o SubSeq(s, i + Len(old), Len(s))

\* the character class [a-f0-9]
HexClass == {"0", "1", "2", "3", "4", "5", "6", "7", "8", "9", "a", "b", "c", "d", "e", "f"}

\* regexp.MustCompile(`.*@[a-f0-9]{32}$`).MatchString(input).  The match is
\* not anchored at the start: it may begin at any position p, from where `.*`
\* takes characters other than newline up to an '@'; `$` (no m flag) is the
\* end of the text only.
MatchString(input) ==
  LET n  == Len(input)
      at == n - HashLen
  IN  /\ at >= 1
      /\ Char(input, at) = "@"
      /\ \A i \in (at + 1)..n : Char(input, i) \in HexClass
      /\ \E p \in 1..at : \A i \in p..(at - 1) : Char(input, i) # "\n"

\* ------------------------------------------------------------------ hashing

\* md5.Sum([]byte(data)): the 16 bytes of the MD5 digest, tabulated for every
\* content the model can hold (the values are those of MD5).
md5Sum(data) ==
  CASE data = "" ->
       <<212, 29, 140, 217, 143, 0, 178, 4, 233, 128, 9, 152, 236, 248, 66, 126>>
    [] data = "<a/>" ->
       <<240, 25, 238, 154, 3, 151, 138, 255, 159, 155, 120, 208, 221, 243, 237, 183>>
    [] data = "@DEADBEEFDEADBEEFDEADBEEFDEADBEEF" ->
       <<235, 203, 25, 42, 92, 168, 134, 116, 13, 5, 113, 226, 184, 163, 146, 104>>
    [] data = "@deadbeefdeadbeefdeadbeefdeadbee" ->
       <<193, 90, 205, 105, 54, 34, 101, 51, 24, 220, 118, 144, 138, 208, 80, 114>>
    [] data = "@deadbeefdeadbeefdeadbeefdeadbeef" ->
       <<133, 41, 22, 228, 101, 212, 89, 177, 31, 229, 153, 217, 59, 146, 51, 82>>
    [] data = "@deadbeefdeadbeefdeadbeefdeadbeef\n" ->
       <<153, 127, 201, 48, 168, 24, 152, 175, 73, 124, 164, 158, 68, 90, 225, 9>>
    [] data = "@deadbeefdeadbeefdeadbeefdeadbeef0" ->
       <<245, 245, 211, 69, 53, 247, 186, 229, 175, 236, 25, 119, 56, 229, 5, 167>>
    [] data = "HTTP://h/t" ->
       <<175, 10, 202, 23, 155, 163, 195, 153, 119, 205, 61, 94, 145, 126, 41, 113>>
    [] data = "HTTP://h/t@DEADBEEFDEADBEEFDEADBEEFDEADBEEF" ->
       <<16, 94, 79, 192, 249, 81, 164, 150, 127, 200, 141, 0, 230, 102, 229, 16>>
    [] data = "HTTP://h/t@deadbeefdeadbeefdeadbeefdeadbee" ->
       <<61, 158, 110, 231, 228, 220, 218, 68, 232, 31, 132, 99, 13, 41, 72, 117>>
    [] data = "HTTP://h/t@deadbeefdeadbeefdeadbeefdeadbeef" ->
       <<174, 48, 233, 90, 135, 95, 61, 126, 180, 183, 175, 85, 230, 240, 34, 106>>
    [] data = "HTTP://h/t@deadbeefdeadbeefdeadbeefdeadbeef\n" ->
       <<162, 192, 189, 40, 163, 107, 84, 206, 150, 232, 53, 218, 136, 34, 5, 25>>
    [] data = "HTTP://h/t@deadbeefdeadbeefdeadbeefdeadbeef0" ->
       <<242, 128, 121, 172, 150, 28, 64, 167, 28, 71, 137, 190, 184, 73, 95, 59>>
    [] data = "foo" ->
       <<172, 189, 24, 219, 76, 194, 248, 92, 237, 239, 101, 79, 204, 196, 164, 216>>
    [] data = "foo@DEADBEEFDEADBEEFDEADBEEFDEADBEEF" ->
       <<208, 78, 44, 206, 31, 3, 193, 59, 134, 216, 243, 249, 47, 12, 28, 231>>
    [] data = "foo@deadbeefdeadbeefdeadbeefdeadbee" ->
       <<90, 141, 166, 207, 194, 194, 175, 20, 44, 183, 247, 65, 163, 143, 38, 37>>
    [] data = "foo@deadbeefdeadbeefdeadbeefdeadbeef" ->
       <<220, 172, 55, 70, 126, 203, 25, 81, 134, 36, 91, 79, 12, 92, 237, 214>>
    [] data = "foo@deadbeefdeadbeefdeadbeefdeadbeef\n" ->
       <<70, 70, 213, 210, 93, 189, 42, 60, 208, 175, 166, 210, 60, 169, 248, 126>>
    [] data = "foo@deadbeefdeadbeefdeadbeefdeadbeef0" ->
       <<65, 226, 57, 192, 251, 218, 218, 251, 67, 48, 42, 58, 58, 3, 105, 171>>
    [] data = "j={{.Name}}" ->
       <<78, 103, 198, 120, 62, 133, 199, 238, 0, 213, 206, 69, 47, 186, 7, 134>>
    [] data = "j={{.Name}}@DEADBEEFDEADBEEFDEADBEEFDEADBEEF" ->
       <<36, 163, 94, 16, 184, 252, 43, 13, 82, 139, 90, 50, 177, 117, 251, 140>>
    [] data = "j={{.Name}}@deadbeefdeadbeefdeadbeefdeadbee" ->
       <<3, 229, 27, 207, 184, 74, 103, 90, 222, 145, 150, 78, 214, 90, 8, 77>>
    [] data = "j={{.Name}}@deadbeefdeadbeefdeadbeefdeadbeef" ->
       <<238, 213, 118, 235, 222, 164, 77, 159, 130, 37, 47, 24, 249, 44, 151, 116>>
    [] data = "j={{.Name}}@deadbeefdeadbeefdeadbeefdeadbeef\n" ->
       <<229, 80, 9, 80, 67, 185, 254, 23, 253, 5, 186, 74, 212, 221, 245, 110>>
    [] data = "j={{.Name}}@deadbeefdeadbeefdeadbeefdeadbeef0" ->
       <<234, 92, 165, 143, 234, 246, 89, 247, 140, 4, 178, 71, 204, 39, 121, 176>>
    [] data = "x{{.Bad}}" ->
       <<216, 21, 91, 37, 110, 249, 130, 114, 39, 200, 117, 2, 125, 253, 164, 38>>
    [] data = "x{{.Bad}}@DEADBEEFDEADBEEFDEADBEEFDEADBEEF" ->
       <<46, 139, 139, 236, 42, 38, 145, 187, 201, 35, 6, 22, 45, 166, 138, 166>>
    [] data = "x{{.Bad}}@deadbeefdeadbeefdeadbeefdeadbee" ->
       <<141, 40, 62, 103, 138, 128, 84, 248, 144, 114, 148, 42, 54, 230, 13, 154>>
    [] data = "x{{.Bad}}@deadbeefdeadbeefdeadbeefdeadbeef" ->
       <<165, 175, 216, 58, 194, 47, 121, 86, 83, 44, 220, 235, 51, 26, 175, 81>>
    [] data = "x{{.Bad}}@deadbeefdeadbeefdeadbeefdeadbeef\n" ->
       <<178, 185, 183, 228, 141, 142, 166, 6, 46, 136, 6, 154, 219, 43, 19, 33>>
    [] data = "x{{.Bad}}@deadbeefdeadbeefdeadbeefdeadbeef0" ->
       <<209, 42, 152, 253, 213, 81, 136, 105, 48, 150, 108, 147, 212, 9, 174, 235>>
    [] data = "{{.Name" ->
       <<165, 219, 148, 39, 252, 103, 217, 127, 128, 4, 68, 69, 10, 128, 149, 185>>
    [] data = "{{.Name@DEADBEEFDEADBEEFDEADBEEFDEADBEEF" ->
       <<207, 169, 55, 235, 109, 76, 8, 146, 148, 92, 174, 230, 40, 177, 229, 51>>
    [] data = "{{.Name@deadbeefdeadbeefdeadbeefdeadbee" ->
       <<161, 255, 133, 250, 28, 12, 81, 95, 194, 107, 163, 184, 4, 17, 193, 214>>
    [] data = "{{.Name@deadbeefdeadbeefdeadbeefdeadbeef" ->
       <<223, 227, 138, 158, 97, 84, 104, 146, 19, 115, 76, 31, 19, 228, 201, 222>>
    [] data = "{{.Name@deadbeefdeadbeefdeadbeefdeadbeef\n" ->
       <<162, 138, 22, 199, 79, 124, 93, 118, 242, 92, 149, 156, 125, 32, 165, 120>>
    [] data = "{{.Name@deadbeefdeadbeefdeadbeefdeadbeef0" ->
       <<218, 32, 87, 141, 147, 39, 209, 178, 13, 50, 241, 188, 155, 228, 55, 242>>

hextable == "0123456789abcdef"

\* hex.EncodeToString: two characters of hextable per byte, high nibble first
RECURSIVE EncodeToString(_)
EncodeToString(bytes) ==
  IF bytes = << >> THEN ""
  ELSE LET b == Head(bytes)
       IN  Char(hextable, (b \div 16) + 1) \o Char(hextable, (b % 16) + 1)
             \o EncodeToString(Tail(bytes))

UpperLetters == "ABCDEFGHIJKLMNOPQRSTUVWXYZ"
LowerLetters == "abcdefghijklmnopqrstuvwxyz"

\* strings.ToLower, on the ASCII text the model holds
RECURSIVE ToLower(_)
ToLower(s) ==
  IF s = "" THEN ""
  ELSE LET ch == Char(s, 1)
           up == {i \in 1..26 : Char(UpperLetters, i) = ch}
       IN  (IF up = {} THEN ch ELSE Char(LowerLetters, CHOOSE i \in up : TRUE))
             \o ToLower(SubSeq(s, 2, Len(s)))

\* ------------------------------------------------------------------ errors

NoError      == "<nil>"
ErrInvalid   == "Invalid config.xml template object"
ErrConnect   == "http.Get: connection error"
ErrBody      == "ioutil.ReadAll: error reading the response body"
ErrReadFile  == "ioutil.ReadFile: error"
ErrParse     == "template: syntax error"
ErrExec      == "template: execution error"

\* ------------------------------------------------------------------ template object

\* a nil *ConfigXMLTemplate
NilTemplate == [nil |-> TRUE, source |-> "", data |-> "", hash |-> ""]

\* &ConfigXMLTemplate{source, data, hash}
ConfigXMLTemplate(source, data, hash) ==
  [nil |-> FALSE, source |-> source, data |-> data, hash |-> hash]

\* SplitReference with the first slice one byte short: the '@' stays in the
\* candidate
SplitReferenceKeepsAt(input) ==
  IF MatchString(input)
  THEN [source |-> SubSeq(input, 1, Len(input) - HashLen),
        hash   |-> SubSeq(input, Len(input) - HashLen + 1, Len(input))]
  ELSE [source |-> input, hash |-> ""]

\* the hash extraction of NewConfigXMLTemplate: the reference without its
\* last 33 bytes and its last 32 bytes when the pattern matches
SplitReference(input) ==
  IF MatchString(input)
  THEN [source |-> SubSeq(input, 1, Len(input) - (HashLen + 1)),
        hash   |-> SubSeq(input, Len(input) - HashLen + 1, Len(input))]
  ELSE [source |-> input, hash |-> ""]

\* the backing sources: what a GET of a URL and a read of a path give now
NoBody == ""
Served(body)  == [kind |-> "ok", body |-> body]
ConnFailure   == [kind |-> "connfail", body |-> NoBody]
BodyFailure   == [kind |-> "readfail", body |-> NoBody]

\* http.Get(url) followed by ioutil.ReadAll(response.Body): any status is
\* read as a body; an unknown host does not connect
HttpGet(st, url) == IF url \in DOMAIN st THEN st[url] ELSE ConnFailure

\* ioutil.ReadFile(from): a path that is not there fails
ReadFile(st, from) == IF from \in DOMAIN st THEN st[from] ELSE BodyFailure

\* FromURL returning the half-built object with the error
FromURLPartial(source, hash, st) ==
  LET response == HttpGet(st, source)
      io == <<[call |-> "http.Get", arg |-> source]>>
  IN  IF response.kind = "connfail"
      THEN [tpl |-> NilTemplate, err |-> ErrConnect, io |-> io]
      ELSE IF response.kind = "readfail"
      THEN [tpl |-> ConfigXMLTemplate("", "", hash), err |-> ErrBody, io |-> io]
      ELSE [tpl |-> ConfigXMLTemplate(source, response.body, hash),
            err |-> NoError, io |-> io]

\* the http:// and https:// branch of NewConfigXMLTemplate: one http.Get,
\* the body read whole; either failure returns nil and the error
FromURL(source, hash, st) ==
  LET response == HttpGet(st, source)
      io == <<[call |-> "http.Get", arg |-> source]>>
  IN  IF response.kind = "connfail"
      THEN [tpl |-> NilTemplate, err |-> ErrConnect, io |-> io]
      ELSE IF response.kind = "readfail"
      THEN [tpl |-> NilTemplate, err |-> ErrBody, io |-> io]
      ELSE [tpl |-> ConfigXMLTemplate(source, response.body, hash),
            err |-> NoError, io |-> io]

\* FromFile keeping the path read, not the candidate, as the source
FromFileKeepsPath(source, hash, st) ==
  LET from == Replace(source, "file://", "")
      file == ReadFile(st, from)
      io   == <<[call |-> "ioutil.ReadFile", arg |-> from]>>
  IN  IF file.kind # "ok"
      THEN [tpl |-> NilTemplate, err |-> ErrReadFile, io |-> io]
      ELSE [tpl |-> ConfigXMLTemplate(from, file.body, hash),
            err |-> NoError, io |-> io]

\* the file:// branch: the prefix replaced once, one ioutil.ReadFile
FromFile(source, hash, st) ==
  LET from == Replace(source, "file://", "")
      file == ReadFile(st, from)
      io   == <<[call |-> "ioutil.ReadFile", arg |-> from]>>
  IN  IF file.kind # "ok"
      THEN [tpl |-> NilTemplate, err |-> ErrReadFile, io |-> io]
      ELSE [tpl |-> ConfigXMLTemplate(source, file.body, hash),
            err |-> NoError, io |-> io]

\* the inline branch
Inline(source, hash) ==
  [tpl |-> ConfigXMLTemplate("", source, hash), err |-> NoError, io |-> << >>]

\* NewConfigXMLTemplate(input): the pointer and error returned, and the
\* http.Get and ioutil.ReadFile calls made (io)
NewConfigXMLTemplate(input, st) ==
  LET sp     == SplitReference(input)
      source == sp.source
  IN  IF HasPrefix(source, "http://") \/ HasPrefix(source, "https://")
      THEN FromURL(source, sp.hash, st)
      ELSE IF HasPrefix(source, "file://")
      THEN FromFile(source, sp.hash, st)
      ELSE Inline(source, sp.hash)

NoReturn == "<no return: panic>"

\* a method's return: text, error, the receiver after the call, and
\* whether the call panicked instead of returning
Returns(ret, err, c) == [ret |-> ret, err |-> err, c |-> c, panic |-> FALSE]
Panics(c)            == [ret |-> "", err |-> NoReturn, c |-> c, panic |-> TRUE]

\* ComputedHash keeping the digest in the object's hash field
ComputedHashCaches(c) ==
  IF c.nil
  THEN Returns("", ErrInvalid, c)
  ELSE LET h == ToLower(EncodeToString(md5Sum(c.data)))
       IN  Returns(h, NoError, [c EXCEPT !.hash = h])

\* c.ComputedHash()
ComputedHash(c) ==
  IF c.nil
  THEN Returns("", ErrInvalid, c)
  ELSE Returns(ToLower(EncodeToString(md5Sum(c.data))), NoError, c)

\* RecordedHash without the nil check: c.hash of a nil pointer
RecordedHashNoCheck(c) ==
  IF c.nil THEN Panics(c) ELSE Returns(c.hash, NoError, c)

\* c.RecordedHash()
RecordedHash(c) ==
  IF c.nil
  THEN Returns("", ErrInvalid, c)
  ELSE Returns(c.hash, NoError, c)

\* GetTemplateID with the recorded hash in place of the computed one
GetTemplateIDRecorded(c) ==
  IF c.nil
  THEN Returns("", ErrInvalid, c)
  ELSE IF Len(c.source) = 0
  THEN Returns(c.data, NoError, c)
  ELSE Returns(c.source \o "@" \o c.hash, NoError, c)

\* GetTemplateID without the inline case
GetTemplateIDNoInline(c) ==
  IF c.nil
  THEN Returns("", ErrInvalid, c)
  ELSE LET h == ComputedHash(c)
       IN  Returns(h.c.source \o "@" \o h.ret, NoError, h.c)

\* c.GetTemplateID()
GetTemplateID(c) ==
  IF c.nil
  THEN Returns("", ErrInvalid, c)
  ELSE IF Len(c.source) = 0
  THEN Returns(c.data, NoError, c)
  ELSE LET h == ComputedHash(c)
       IN  Returns(h.c.source \o "@" \o h.ret, NoError, h.c)

\* ------------------------------------------------------------------ resource data

\* A value of the schema.ResourceData handed to BindTo, as an interface{}:
\* set tells whether the key is set, t is the dynamic type, s the payload
\* of a string, bool or int, m the entries of a map[string]interface{} and
\* l the elements of a []interface{}.
Elem(t, s) == [t |-> t, s |-> s]
Absent     == [set |-> FALSE, t |-> "none",   s |-> "", m |-> {}, l |-> << >>]
Str(s)     == [set |-> TRUE,  t |-> "string", s |-> s,  m |-> {}, l |-> << >>]
Bool(b)    == [set |-> TRUE,  t |-> "bool",   s |-> IF b THEN "true" ELSE "false",
               m |-> {}, l |-> << >>]
Number(s)     == [set |-> TRUE,  t |-> "int",    s |-> s,  m |-> {}, l |-> << >>]
Map(m)     == [set |-> TRUE,  t |-> "map",    s |-> "", m |-> m,  l |-> << >>]
List(l)    == [set |-> TRUE,  t |-> "list",   s |-> "", m |-> {}, l |-> l]

Keys == {"name", "display_name", "description", "trigger_remotely_token", "disabled",
         "master_merge_triggering", "permissions", "configuration", "pr_triggering_ghpr",
         "pr_triggering_gh_integration", "parameter", "branch_push_triggering",
         "jenkinsfile"}

\* the zero value of a value's type
IsZero(v) ==
  CASE v.t = "string" -> v.s = ""
    [] v.t = "bool"   -> v.s = "false"
    [] v.t = "int"    -> v.s = "0"
    [] v.t = "map"    -> v.m = {}
    [] v.t = "list"   -> v.l = << >>
    [] OTHER          -> TRUE

\* d.GetOk(key): helper/schema reports ok only for a key that is set to a
\* value other than the zero value of its type
GetOk(d, key) == [value |-> d[key], ok |-> d[key].set /\ ~IsZero(d[key])]

\* d.Get(key) of a string field: the zero value "" when the key is not set
Get(d, key) == IF d[key].set THEN d[key] ELSE Str("")

\* Split without the empty segments
RECURSIVE SplitNonEmpty(_, _)
SplitNonEmpty(s, sep) ==
  LET hits == {i \in 1..Len(s) : Char(s, i) = sep}
  IN  IF hits = {} THEN (IF s = "" THEN << >> ELSE <<s>>)
      ELSE LET i == CHOOSE h \in hits : \A g \in hits : h <= g
           IN  (IF i = 1 THEN << >> ELSE <<SubSeq(s, 1, i - 1)>>)
                 \o SplitNonEmpty(SubSeq(s, i + 1, Len(s)), sep)

\* strings.Split(s, sep), sep a single character
RECURSIVE Split(_, _)
Split(s, sep) ==
  LET hits == {i \in 1..Len(s) : Char(s, i) = sep}
  IN  IF hits = {} THEN <<s>>
      ELSE LET i == CHOOSE h \in hits : \A g \in hits : h <= g
           IN  <<SubSeq(s, 1, i - 1)>> \o Split(SubSeq(s, i + 1, Len(s)), sep)

\* the job literal of BindTo, before Name is assigned
EmptyJob ==
  [Name |-> "", Description |-> "", DisplayName |-> "", TriggerRemotelyToken |-> "",
   Disabled |-> FALSE, MasterMergeTriggering |-> FALSE,
   Permissions |-> << >>, Parameters |-> << >>,
   BranchPushTriggering |-> {}, PrTriggeringGhpr |-> {}, PrTriggeringGhIntegration |-> {},
   Jenkinsfile |-> {}, Configuration |-> {}]

\* for k, v := range value { field[k] = v.(string) }: a value that is no
\* string panics whatever the order of the iteration
CopyMap(m) ==
  IF \E e \in m : e[2].t # "string"
  THEN [panic |-> TRUE, map |-> {}]
  ELSE [panic |-> FALSE, map |-> {<<e[1], e[2].s>> : e \in m}]

\* the sub-keys of a parameter record and the keys they are copied to
ParameterKeys == {"type", "name", "description", "default"}
ConfigKey(k) ==
  CASE k = "type" -> "Type" [] k = "name" -> "Name"
    [] k = "description" -> "Description" [] k = "default" -> "Default"

\* one element of the parameter list: v.(map[string]interface{}), then the
\* sub-keys that are there, each asserted to be a string
CopyParameter(v) ==
  IF v.t # "map" \/ \E e \in v.m : e[1] \in ParameterKeys /\ e[2].t # "string"
  THEN [panic |-> TRUE, map |-> {}]
  ELSE [panic |-> FALSE,
        map |-> {<<ConfigKey(e[1]), e[2].s>> :
                   e \in {f \in v.m : f[1] \in ParameterKeys}}]

RECURSIVE CopyParameters(_)
CopyParameters(l) ==
  IF l = << >> THEN [panic |-> FALSE, list |-> << >>]
  ELSE LET first == CopyParameter(Head(l))
           rest  == CopyParameters(Tail(l))
       IN  IF first.panic \/ rest.panic THEN [panic |-> TRUE, list |-> << >>]
           ELSE [panic |-> FALSE, list |-> <<first.map>> \o rest.list]

\* the GetOk blocks of BindTo in the order of the code: key, field, kind
Blocks ==
  << <<"display_name", "DisplayName", "string">>,
     <<"description", "Description", "string">>,
     <<"trigger_remotely_token", "TriggerRemotelyToken", "string">>,
     <<"disabled", "Disabled", "bool">>,
     <<"master_merge_triggering", "MasterMergeTriggering", "bool">>,
     <<"permissions", "Permissions", "split">>,
     <<"configuration", "Configuration", "map">>,
     <<"pr_triggering_ghpr", "PrTriggeringGhpr", "map">>,
     <<"pr_triggering_gh_integration", "PrTriggeringGhIntegration", "map">>,
     <<"parameter", "Parameters", "list">>,
     <<"branch_push_triggering", "BranchPushTriggering", "map">>,
     <<"jenkinsfile", "Jenkinsfile", "map">> >>

\* one block: if value, ok := d.GetOk(key); ok { j.Field = value.(T) ... }
\* a failed type assertion panics (the one-result form of the assertion)
Block(st, d, b) ==
  LET got   == GetOk(d, b[1])
      value == got.value
      field == b[2]
      kind  == b[3]
      read  == [st EXCEPT !.reads = st.reads + 1]
      crash == [read EXCEPT !.panic = TRUE]
  IN  IF ~got.ok THEN read
      ELSE CASE kind = "string" ->
                  IF value.t # "string" THEN crash
                  ELSE [read EXCEPT !.j[field] = value.s]
             [] kind = "bool" ->
                  IF value.t # "bool" THEN crash
                  ELSE [read EXCEPT !.j[field] = (value.s = "true")]
             [] kind = "split" ->
                  IF value.t # "string" THEN crash
                  ELSE [read EXCEPT !.j[field] = st.j[field] \o Split(value.s, ",")]
             [] kind = "map" ->
                  IF value.t # "map" \/ CopyMap(value.m).panic THEN crash
                  ELSE [read EXCEPT !.j[field] = CopyMap(value.m).map]
             [] kind = "list" ->
                  IF value.t # "list" \/ CopyParameters(value.l).panic THEN crash
                  ELSE [read EXCEPT !.j[field] = st.j[field] \o CopyParameters(value.l).list]

RECURSIVE RunBlocks(_, _, _)
RunBlocks(st, d, i) ==
  IF i > Len(Blocks) \/ st.panic THEN st
  ELSE RunBlocks(Block(st, d, Blocks[i]), d, i + 1)

\* the copy of the input parameters into the job: j := &job{Name:
\* d.Get("name").(string), ...} and the GetOk blocks; panic tells a failed
\* type assertion, reads counts the d.Get and d.GetOk calls made
Adapt(d) ==
  LET name == Get(d, "name")
  IN  IF name.t # "string"
      THEN [panic |-> TRUE, j |-> EmptyJob, reads |-> 1]
      ELSE RunBlocks([panic |-> FALSE, j |-> [EmptyJob EXCEPT !.Name = name.s], reads |-> 1],
                     d, 1)

\* ------------------------------------------------------------------ template engine

\* strings.Index, from 1; 0 when sub does not occur
Index(s, sub) ==
  LET hits == {i \in 1..(Len(s) - Len(sub) + 1) : SubSeq(s, i, i + Len(sub) - 1) = sub}
  IN  IF hits = {} THEN 0 ELSE CHOOSE h \in hits : \A g \in hits : h <= g

RECURSIVE TrimSpace(_)
TrimSpace(s) ==
  IF s # "" /\ Char(s, 1) = " " THEN TrimSpace(SubSeq(s, 2, Len(s)))
  ELSE IF s # "" /\ Char(s, Len(s)) = " " THEN TrimSpace(SubSeq(s, 1, Len(s) - 1))
  ELSE s

Letters == {Char(UpperLetters, i) : i \in 1..26} \cup {Char(LowerLetters, i) : i \in 1..26}

\* an action that is a field of the data: .Name
IsField(body) ==
  /\ Len(body) >= 2
  /\ Char(body, 1) = "."
  /\ \A i \in 2..Len(body) : Char(body, i) \in Letters

TextNode(s)  == [kind |-> "text", s |-> s]
FieldNode(s) == [kind |-> "field", s |-> s]

\* template.New("template").Parse(text), for the templates the model holds:
\* text with {{.Field}} actions.  An action that is not closed, or that is
\* no field, is a syntax error.
RECURSIVE Parse(_)
Parse(text) ==
  LET open == Index(text, "{{")
  IN  IF open = 0
      THEN [ok |-> TRUE, tree |-> IF text = "" THEN << >> ELSE <<TextNode(text)>>]
      ELSE LET rest  == SubSeq(text, open + 2, Len(text))
               close == Index(rest, "}}")
               body  == TrimSpace(SubSeq(rest, 1, close - 1))
               after == Parse(SubSeq(rest, close + 2, Len(rest)))
           IN  IF close = 0 \/ ~IsField(body) \/ ~after.ok
               THEN [ok |-> FALSE, tree |-> << >>]
               ELSE [ok |-> TRUE,
                     tree |-> (IF open = 1 THEN << >>
                               ELSE <<TextNode(SubSeq(text, 1, open - 1))>>)
                              \o <<FieldNode(SubSeq(body, 2, Len(body)))>> \o after.tree]

\* the escaping html/template applies to a value printed in element content
EscapeChar(ch) ==
  CASE ch = "&" -> "&amp;" [] ch = "<" -> "&lt;" [] ch = ">" -> "&gt;"
    [] ch = "'" -> "&#39;" [] ch = "+" -> "&#43;" [] OTHER -> ch

RECURSIVE HTMLEscape(_)
HTMLEscape(s) ==
  IF s = "" THEN "" ELSE EscapeChar(Char(s, 1)) \o HTMLEscape(SubSeq(s, 2, Len(s)))

RECURSIVE Join(_, _)
Join(seq, sep) ==
  IF seq = << >> THEN ""
  ELSE IF Len(seq) = 1 THEN seq[1]
  ELSE seq[1] \o sep \o Join(Tail(seq), sep)

\* some enumeration of a set
RECURSIVE Enumerate(_)
Enumerate(S) ==
  IF S = {} THEN << >> ELSE LET e == CHOOSE x \in S : TRUE IN <<e>> \o Enumerate(S \ {e})

RECURSIVE PrintEntries(_)
PrintEntries(es) ==
  IF es = << >> THEN << >> ELSE <<es[1][1] \o ":" \o es[1][2]>> \o PrintEntries(Tail(es))

PrintMap(m) == "map[" \o Join(PrintEntries(Enumerate(m)), " ") \o "]"

RECURSIVE PrintMaps(_)
PrintMaps(l) == IF l = << >> THEN << >> ELSE <<PrintMap(l[1])>> \o PrintMaps(Tail(l))

\* the text of a field of the job, as fmt prints it
PrintField(j, name) ==
  CASE name \in {"Name", "Description", "DisplayName", "TriggerRemotelyToken"} -> j[name]
    [] name \in {"Disabled", "MasterMergeTriggering"} -> IF j[name] THEN "true" ELSE "false"
    [] name = "Permissions" -> "[" \o Join(j[name], " ") \o "]"
    [] name = "Parameters" -> "[" \o Join(PrintMaps(j[name]), " ") \o "]"
    [] OTHER -> PrintMap(j[name])

\* tpl.Execute(&buffer, j): the nodes are written to the buffer in order; a
\* field the job does not have stops the execution with an error, and what
\* was written before it stays in the buffer
RECURSIVE Execute(_, _, _)
Execute(tree, j, buffer) ==
  IF tree = << >> THEN [err |-> NoError, buffer |-> buffer]
  ELSE LET node == Head(tree)
       IN  IF node.kind = "text"
           THEN Execute(Tail(tree), j, buffer \o node.s)
           ELSE IF node.s \in DOMAIN j
           THEN Execute(Tail(tree), j, buffer \o HTMLEscape(PrintField(j, node.s)))
           ELSE [err |-> ErrExec, buffer |-> buffer]

\* Bound returning what the buffer holds along with the error
BoundPartial(c, tree, a) ==
  LET x == Execute(tree, a.j, "")
      done == [parsed |-> TRUE, reads |-> a.reads, j |-> a.j]
  IN  IF a.panic
      THEN Panics(c) @@ done @@ [buffer |-> ""]
      ELSE Returns(x.buffer, x.err, c) @@ done @@ [buffer |-> x.buffer]

\* the end of BindTo: the template executed on the job into a buffer; an
\* error returns "" and the error, else the buffer's text is returned.  A
\* panic of the copy before it is passed on.
Bound(c, tree, a) ==
  LET x == Execute(tree, a.j, "")
      done == [parsed |-> TRUE, reads |-> a.reads, j |-> a.j]
  IN  IF a.panic
      THEN Panics(c) @@ done @@ [buffer |-> ""]
      ELSE IF x.err # NoError
      THEN Returns("", x.err, c) @@ done @@ [buffer |-> x.buffer]
      ELSE Returns(x.buffer, NoError, c) @@ done @@ [buffer |-> x.buffer]

\* c.BindTo(d): the return, and what the call did: whether Parse was
\* called, the reads of d, the job built and the buffer written
BindTo(c, d) ==
  LET untouched == [parsed |-> FALSE, reads |-> 0, j |-> EmptyJob, buffer |-> ""]
  IN  IF c.nil
      THEN Returns("", ErrInvalid, c) @@ untouched
      ELSE LET tpl == Parse(c.data)
           IN  IF ~tpl.ok
               THEN Returns("", ErrParse, c) @@ [untouched EXCEPT !.parsed = TRUE]
               ELSE Bound(c, tpl.tree, Adapt(d))

\* ------------------------------------------------------------------ inputs

\* longest permissions text enumerated
MaxPermLen == 3

H1 == "deadbeefdeadbeefdeadbeefdeadbeef"

\* references: a candidate followed by a suffix
Candidates ==
  {"", "foo", "j={{.Name}}", "{{.Name", "x{{.Bad}}", "HTTP://h/t",
   "http://h/t", "https://h/t", "file:///t.xml", "file://"}

Suffixes ==
  {"",
   "@" \o H1,                                  \* a recorded hash
   "@" \o SubSeq(H1, 1, HashLen - 1),          \* one character short
   "@" \o H1 \o "0",                           \* one character long
   "@DEADBEEFDEADBEEFDEADBEEFDEADBEEF",        \* upper case
   "@" \o H1 \o "\n",                          \* a newline after the hash
   "@" \o H1 \o "@" \o H1}                     \* two suffixes

References == {cand \o suf : cand \in Candidates, suf \in Suffixes}

\* the references bound: each candidate, bare and with a recorded hash
BindReferences == {cand \o suf : cand \in Candidates, suf \in {"", "@" \o H1}}

\* the URLs and paths that are there, and what each can give
Locations == {"http://h/t", "https://h/t", "/t.xml"}

Outcomes(loc) ==
  CASE loc = "http://h/t"  -> {ConnFailure, BodyFailure, Served("<a/>")}
    [] loc = "https://h/t" -> {Served("<a/>"), Served("j={{.Name}}")}
    [] loc = "/t.xml"      -> {BodyFailure, Served("x{{.Bad}}")}

Stores == {st \in [Locations -> UNION {Outcomes(loc) : loc \in Locations}] :
             \A loc \in Locations : st[loc] \in Outcomes(loc)}

\* every source answering
AllServed ==
  [loc \in Locations |->
     CASE loc = "http://h/t"  -> Served("<a/>")
       [] loc = "https://h/t" -> Served("j={{.Name}}")
       [] loc = "/t.xml"      -> Served("x{{.Bad}}")]

RECURSIVE Texts(_)
Texts(n) == IF n = 0 THEN {""} ELSE {t \o ch : t \in Texts(n - 1), ch \in {"a", ","}}

PermTexts == UNION {Texts(n) : n \in 0..MaxPermLen} \cup {"a,b,,c"}

NoData == [k \in Keys |-> Absent]
Base   == [NoData EXCEPT !["name"] = Str("job")]

StringKeys == {"display_name", "description", "trigger_remotely_token"}
BoolKeys   == {"disabled", "master_merge_triggering"}
MapKeys    == {"configuration", "pr_triggering_ghpr", "pr_triggering_gh_integration",
               "branch_push_triggering", "jenkinsfile"}

\* the values tried for a key, right and wrong representations
Variants(k) ==
  CASE k = "name"        -> {Absent, Str("a<b"), Number("5")}
    [] k \in StringKeys  -> {Str("text"), Str(""), Bool(TRUE)}
    [] k \in BoolKeys    -> {Bool(TRUE), Bool(FALSE), Str("true")}
    [] k = "permissions" -> {Str(t) : t \in PermTexts} \cup {Number("5"), List(<< >>)}
    [] k \in MapKeys     -> {Map({<<"k", Elem("string", "v")>>}),
                             Map({<<"k", Elem("string", "v")>>, <<"n", Elem("int", "1")>>}),
                             Map({}), Str("k=v")}
    [] k = "parameter"   -> {List(<<[t |-> "map", m |-> {<<"type", Elem("string", "bool")>>,
                                                        <<"name", Elem("string", "p")>>}]>>),
                             List(<<[t |-> "map", m |-> {}],
                                    [t |-> "map", m |-> {<<"other", Elem("int", "1")>>}]>>),
                             List(<<[t |-> "map", m |-> {<<"default", Elem("bool", "true")>>}]>>),
                             List(<<[t |-> "string", m |-> {}]>>),
                             Str("p")}

\* resource data: the base (name only) with one key varied
DataCases == {Base} \cup UNION {{[Base EXCEPT ![k] = v] : v \in Variants(k)} : k \in Keys}

\* ------------------------------------------------------------------ state

VARIABLES
  store,      \* the backing sources as they are now
  stable,     \* no source changed since the last NewConfigXMLTemplate
  c,          \* the *ConfigXMLTemplate the caller holds
  op,         \* the last call
  input,      \* its argument, for NewConfigXMLTemplate
  prev,       \* the template whose GetTemplateID gave input, else nil
  prevStable, \* stable, as it was when that call was made
  io,         \* the http.Get and ioutil.ReadFile calls the last call made
  ret,        \* the text the last call returned
  err,        \* the error the last call returned
  panicked,   \* the last call panicked
  d,          \* the resource data of the last BindTo
  j,          \* the job it built
  buffer,     \* the buffer it wrote
  parsed,     \* it called Parse
  reads       \* the d.Get and d.GetOk calls it made

vars == <<store, stable, c, op, input, prev, prevStable, io, ret, err, panicked,
          d, j, buffer, parsed, reads>>

\* what only BindTo sets
NoBind ==
  /\ d' = NoData
  /\ j' = EmptyJob
  /\ buffer' = ""
  /\ parsed' = FALSE
  /\ reads' = 0

Start ==
  /\ stable = TRUE
  /\ c = NilTemplate
  /\ op = "none"
  /\ input = ""
  /\ prev = NilTemplate
  /\ prevStable = FALSE
  /\ io = << >>
  /\ ret = ""
  /\ err = NoError
  /\ panicked = FALSE
  /\ d = NoData
  /\ j = EmptyJob
  /\ buffer = ""
  /\ parsed = FALSE
  /\ reads = 0

\* no template yet, the sources in any condition
Init == store \in Stores /\ Start

\* no template yet, every source answering
InitBind == store = AllServed /\ Start

\* c, err := NewConfigXMLTemplate(r)
Construct(r, from, fromStable) ==
  LET res == NewConfigXMLTemplate(r, store)
  IN  /\ c' = res.tpl
      /\ err' = res.err
      /\ io' = res.io
      /\ op' = "NewConfigXMLTemplate"
      /\ input' = r
      /\ prev' = from
      /\ prevStable' = fromStable
      /\ ret' = ""
      /\ stable' = TRUE
      /\ panicked' = FALSE
      /\ NoBind
      /\ UNCHANGED store

\* a reference of the caller's
Resolve(refs) == \E r \in refs : Construct(r, NilTemplate, FALSE)

\* the identity GetTemplateID just returned, resolved again
ResolveID ==
  /\ op = "GetTemplateID"
  /\ err = NoError
  /\ Construct(ret, c, stable)

\* a method that returns a text and an error
Return(name, res) ==
  /\ op' = name
  /\ ret' = res.ret
  /\ err' = res.err
  /\ c' = res.c
  /\ panicked' = res.panic
  /\ io' = << >>
  /\ input' = ""
  /\ prev' = NilTemplate
  /\ prevStable' = FALSE
  /\ UNCHANGED <<store, stable>>

CallGetTemplateID == Return("GetTemplateID", GetTemplateID(c)) /\ NoBind

CallRecordedHash == Return("RecordedHash", RecordedHash(c)) /\ NoBind

CallComputedHash == Return("ComputedHash", ComputedHash(c)) /\ NoBind

\* xml, err := c.BindTo(data)
CallBindTo(cases) ==
  \E data \in cases :
    LET res == BindTo(c, data)
    IN  /\ Return("BindTo", res)
        /\ d' = data
        /\ j' = res.j
        /\ buffer' = res.buffer
        /\ parsed' = res.parsed
        /\ reads' = res.reads

\* a source changes: another body, or it stops or starts answering
StoreChange ==
  \E loc \in Locations : \E o \in Outcomes(loc) :
    /\ o # store[loc]
    /\ store' = [store EXCEPT ![loc] = o]
    /\ stable' = FALSE
    /\ UNCHANGED <<c, op, input, prev, prevStable, io, ret, err, panicked,
                   d, j, buffer, parsed, reads>>

\* resolution and identity, over sources that change
Next ==
  \/ Resolve(References)
  \/ ResolveID
  \/ CallGetTemplateID
  \/ CallRecordedHash
  \/ CallComputedHash
  \/ CallBindTo({Base})
  \/ StoreChange

Spec == Init /\ [][Next]_vars

\* binding, over every resource data
NextBind ==
  \/ Resolve(BindReferences)
  \/ CallGetTemplateID
  \/ CallRecordedHash
  \/ CallComputedHash
  \/ CallBindTo(DataCases)

SpecBind == InitBind /\ [][NextBind]_vars

\* ------------------------------------------------------------------ properties

Methods == {"GetTemplateID", "RecordedHash", "ComputedHash", "BindTo"}

Resolved == op = "NewConfigXMLTemplate"

\* r ends with '@' and 32 characters of [a-f0-9]
EndsWithHash(r) ==
  /\ Len(r) >= 33
  /\ Char(r, Len(r) - 32) = "@"
  /\ \A i \in (Len(r) - 31)..Len(r) : Char(r, i) \in {Char("abcdef0123456789", n) : n \in 1..16}

LastChars(r, n) == SubSeq(r, Len(r) - n + 1, Len(r))
DropLast(r, n)  == SubSeq(r, 1, Len(r) - n)

\* the candidate and the recorded hash a reference stands for
CandidateOf(r) == IF EndsWithHash(r) THEN DropLast(r, 33) ELSE r
HashOf(r)      == IF EndsWithHash(r) THEN LastChars(r, 32) ELSE ""

IsRemote(s) == HasPrefix(s, "http://") \/ HasPrefix(s, "https://")
IsFile(s)   == ~IsRemote(s) /\ HasPrefix(s, "file://")
IsInline(s) == ~IsRemote(s) /\ ~IsFile(s)

\* the candidate a call of NewConfigXMLTemplate worked on, as its result and
\* its input/output show it
SeenCandidate ==
  IF ~c.nil THEN (IF c.source = "" THEN c.data ELSE c.source)
  ELSE IF io[1].call = "http.Get" THEN io[1].arg
  ELSE "file://" \o io[1].arg

\* C1: a reference that ends with '@' and 32 lowercase hex characters is split
\* into the candidate (the reference without its last 33 characters) and the
\* recorded hash (its last 32 characters), whatever kind the candidate is; any
\* other reference is the candidate whole and records no hash.  A recorded
\* hash is empty or 32 lowercase hex characters.
C1_HashSplit ==
  Resolved =>
    /\ SeenCandidate = CandidateOf(input)
    /\ ~c.nil => c.hash = HashOf(input)
    /\ ~c.nil /\ c.hash # "" => EndsWithHash("@" \o c.hash)

\* an inline template that was split: the text before the suffix holds an
\* earlier '@' and stays
C1_Witness ==
  /\ Resolved /\ ~c.nil
  /\ c.source = "" /\ c.hash = H1
  /\ c.data = "foo@" \o H1

\* C2: the candidate is classified by prefix, http:// or https:// first, then
\* file://, then inline: a remote candidate is fetched and is the source, the
\* body the data; a file candidate is the source, prefix included, the
\* bytes of the path after the prefix the data; any other candidate is the
\* data, with an empty source.  The source is empty exactly for inline.
C2_Classification ==
  Resolved /\ stable =>
    LET cand == CandidateOf(input)
        path == SubSeq(cand, 8, Len(cand))
    IN  /\ IsRemote(cand) => io = <<[call |-> "http.Get", arg |-> cand]>>
        /\ IsFile(cand) => io = <<[call |-> "ioutil.ReadFile", arg |-> path]>>
        /\ IsInline(cand) => io = << >>
        /\ ~c.nil /\ IsRemote(cand) =>
             c.source = cand /\ cand \in DOMAIN store /\ c.data = store[cand].body
        /\ ~c.nil /\ IsFile(cand) =>
             c.source = cand /\ path \in DOMAIN store /\ c.data = store[path].body
        /\ ~c.nil /\ IsInline(cand) => c.source = "" /\ c.data = cand
        /\ ~c.nil => (c.source = "" <=> IsInline(cand))

\* a file read with success
C2_Witness ==
  /\ Resolved /\ stable /\ ~c.nil
  /\ c.source = "file:///t.xml" /\ c.data = "x{{.Bad}}" /\ c.hash = H1

\* the reference resolved is the identity of an earlier template
FromIdentity == Resolved /\ ~prev.nil

C4_InlineRoundTrip ==
  FromIdentity /\ prev.source = "" =>
    /\ input = prev.data
    /\ ~c.nil /\ c.data = prev.data

\* C4, amended: for every inline template x, GetTemplateID is the data, and
\* resolving it again gives an inline template; its data are the data of x
\* when these do not end with '@' and 32 lowercase hex characters, and
\* otherwise the data of x without these 33 characters, the 32 recorded as
\* the hash.
C4_InlineRoundTripAmended ==
  FromIdentity /\ prev.source = "" =>
    /\ input = prev.data
    /\ ~c.nil /\ c.source = ""
    /\ ~EndsWithHash(prev.data) => c.data = prev.data /\ c.hash = ""
    /\ EndsWithHash(prev.data) =>
         c.data = DropLast(prev.data, 33) /\ c.hash = LastChars(prev.data, 32)

\* an inline template that came with a hash suffix, resolved again: the
\* same data, the hash gone
C4_Witness ==
  /\ FromIdentity /\ ~c.nil
  /\ prev.source = "" /\ prev.hash = H1 /\ prev.data = "foo"
  /\ c.data = "foo" /\ c.hash = ""

\* the error of the outcome a source gives
ErrorOf(outcome) ==
  CASE outcome.kind = "connfail" -> ErrConnect
    [] outcome.kind = "readfail" -> ErrBody
    [] OTHER -> NoError

\* C5: a call of NewConfigXMLTemplate makes at most one http.Get or
\* ioutil.ReadFile call, none for an inline candidate; a failed connection,
\* body read or file read returns that error and a nil template, a success
\* returns a template and no error, and an inline candidate never fails.
C5_OneAttemptNoPartial ==
  Resolved =>
    /\ Len(io) <= 1
    /\ err # NoError <=> c.nil
    /\ c.nil => c = NilTemplate /\ Len(io) = 1
    /\ IsInline(CandidateOf(input)) => err = NoError /\ io = << >>
    /\ stable /\ io # << >> /\ io[1].call = "http.Get" =>
         err = ErrorOf(HttpGet(store, io[1].arg))
    /\ stable /\ io # << >> /\ io[1].call = "ioutil.ReadFile" =>
         (err = ErrReadFile <=> ReadFile(store, io[1].arg).kind # "ok")

\* the body of a response could not be read
C5_Witness ==
  /\ Resolved /\ stable
  /\ err = ErrBody /\ c.nil /\ Len(io) = 1
  /\ c = NilTemplate /\ HashOf(input) = H1

\* C6: on a nil template GetTemplateID, RecordedHash, ComputedHash and BindTo
\* return the empty text and the invalid-object error and do not panic;
\* BindTo does so before Parse is called and before the resource data are
\* read.
C6_NilReceiver ==
  c.nil /\ op \in Methods =>
    /\ ret = "" /\ err = ErrInvalid /\ ~panicked
    /\ ~parsed /\ reads = 0 /\ buffer = ""

\* BindTo on nil with resource data whose name is no string
C6_Witness ==
  /\ c.nil /\ op = "BindTo"
  /\ d["name"].t = "int"
  /\ err = ErrInvalid

\* C7: BindTo returns an error only with the empty text, also when the
\* execution had written to the buffer; data that do not parse give the
\* syntax error, no text and nothing written; a text that is not empty is
\* returned only with a nil error.
C7_NoPartialResult ==
  op = "BindTo" =>
    /\ err # NoError => ret = ""
    /\ ret # "" => err = NoError /\ ~panicked /\ ret = buffer
    /\ ~c.nil /\ ~Parse(c.data).ok => err = ErrParse /\ ret = "" /\ buffer = ""
    /\ err \in {NoError, ErrInvalid, ErrParse, ErrExec, NoReturn}

\* an execution that failed after it wrote
C7_Witness ==
  /\ op = "BindTo" /\ err = ErrExec
  /\ buffer = "x" /\ ret = ""

\* the type BindTo asserts for a key
TypeOf(k) ==
  CASE k \in {"name"} \cup StringKeys \cup {"permissions"} -> "string"
    [] k \in BoolKeys -> "bool"
    [] k \in MapKeys -> "map"
    [] k = "parameter" -> "list"

\* a key set to a value other than zero whose representation is not the one
\* BindTo asserts: the value itself, an entry of a map, or an element or
\* a sub-key of the parameter list
WrongRepresentation(data) ==
  \E k \in Keys :
    /\ data[k].set /\ ~IsZero(data[k])
    /\ \/ data[k].t # TypeOf(k)
       \/ k \in MapKeys /\ \E e \in data[k].m : e[2].t # "string"
       \/ k = "parameter" /\ \E i \in 1..Len(data[k].l) :
            \/ data[k].l[i].t # "map"
            \/ \E e \in data[k].l[i].m :
                 e[1] \in ParameterKeys /\ e[2].t # "string"

\* the data were copied: the template is there and parses
Adapted == op = "BindTo" /\ ~c.nil /\ parsed /\ err # ErrParse

\* C8: a recognized field with the wrong representation fails the whole
\* call with an error returned to the caller, not with a panic of a type
\* assertion, and no text is returned.
C8_CoercionIsError ==
  Adapted /\ WrongRepresentation(d) =>
    /\ ~panicked
    /\ err \notin {NoError, NoReturn}
    /\ ret = ""

RECURSIVE Count(_, _)
Count(s, ch) ==
  IF s = "" THEN 0
  ELSE (IF Char(s, 1) = ch THEN 1 ELSE 0) + Count(SubSeq(s, 2, Len(s)), ch)

\* list is text cut at every ',': one entry more than commas, no ',' in an
\* entry, and the entries joined with ',' are the text
IsSplitOf(list, text) ==
  /\ Len(list) = Count(text, ",") + 1
  /\ \A i \in 1..Len(list) : Count(list[i], ",") = 0
  /\ Join(list, ",") = text

PermissionsText == d["permissions"].set /\ d["permissions"].t = "string"

\* C9 as stated: for every permissions text the list is the text split at
\* every ','; with no permissions the list is empty.
C9_PermissionsSplit ==
  Adapted /\ ~panicked =>
    /\ PermissionsText => IsSplitOf(j.Permissions, d["permissions"].s)
    /\ ~d["permissions"].set => j.Permissions = << >>

\* C9, amended: for every permissions text that is not empty the list is
\* the text split at every ',', empty and duplicate segments kept in order;
\* with no permissions, or the empty text, the list is empty.
C9_PermissionsSplitAmended ==
  Adapted /\ ~panicked =>
    /\ PermissionsText /\ d["permissions"].s # "" =>
         IsSplitOf(j.Permissions, d["permissions"].s)
    /\ PermissionsText /\ d["permissions"].s = "" => j.Permissions = << >>
    /\ ~d["permissions"].set => j.Permissions = << >>

C9_Witness ==
  /\ Adapted /\ ~panicked
  /\ d["permissions"] = Str("a,b,,c")
  /\ j.Permissions = <<"a", "b", "", "c">>

\* C10: a call of GetTemplateID, RecordedHash, ComputedHash or BindTo leaves
\* the template as it was; GetTemplateID, RecordedHash and ComputedHash
\* called again return what they returned; ComputedHash returns what it
\* returns for the same data with no recorded hash.
C10_ReadOnly ==
  [][op' \in Methods =>
       /\ c' = c
       /\ op' = op /\ op # "BindTo" => ret' = ret /\ err' = err
       /\ op' = "ComputedHash" => ret' = ComputedHash([c EXCEPT !.hash = ""]).ret]_vars

\* the computed hash of a template that recorded another one
C10_Witness ==
  /\ op = "ComputedHash" /\ ~c.nil
  /\ c.hash = H1 /\ ret # H1 /\ Len(ret) = 32

====
